---------------------------- MODULE Spec2Model ----------------------------
(***************************************************************************)
(* Model of pymatgen's ferroelectric polarization analysis                 *)
(* (src/pymatgen/analysis/ferroelectricity/polarization.py).               *)
(*                                                                         *)
(* Numbers.  numpy's floating point values are modelled by exact rational  *)
(* numbers <<n, d>> (d > 0, lowest terms); where the rounding of the       *)
(* doubles decides what the code returns, the outcome of the rounding is   *)
(* an input (see get_nearest_site).  Lengths are in Angstrom, dipoles in   *)
(* e.Angstrom.  Converted (muC/cm^2) quantities are expressed in multiples *)
(* of |e_to_muC * cm2_to_A2| = 1602.1766, so that the conversion factor of *)
(* structure i is UnitFactor / volume[i] with UnitFactor = -1.             *)
(*                                                                         *)
(* Lattices.  Every lattice is one that Lattice.from_parameters builds     *)
(* with alpha = beta = 90 degrees: a along x, b in the x-y plane at the    *)
(* angle gamma from a, c along z.  gamma is 90 degrees or an obtuse angle  *)
(* whose cosine and sine are rational (-3/5 and 4/5), so that every        *)
(* Cartesian coordinate is a rational number.                              *)
(***************************************************************************)
EXTENDS Integers, Sequences, FiniteSets, TLC

\* ----------------------------------------------------------------- bounds
\* longest sequence handed to Polarization.__init__
MaxLen == 2
\* largest multiple of a quantum added to a raw dipole (quantum-shift checks)
MaxShift == 1
\* periodic images compared with a chosen one: so many quanta each way, in
\* every direction
MaxImage == 1
\* most sites of a structure handed to get_total_ionic_dipole
MaxSites == 2
\* longest path whose same-branch values are fitted by splines (a cubic
\* spline needs 4 points)
MaxSplineLen == 4
\* most energies handed to EnergyTrend (a quartic spline needs 5 points)
MaxEnergies == 5
\* most bonds of a COHPCAR file, and most orbital-resolved lines of a bond
MaxBonds == 3
MaxOrbLines == 2

Dirs == 1..3

\* -------------------------------------------------------------- rationals
Abs(x) == IF x < 0 THEN -x ELSE x

RECURSIVE GCD(_, _)
GCD(a, b) == IF b = 0 THEN a ELSE GCD(b, a % b)

LCM(a, b) == (a \div GCD(a, b)) * b

\* the rational n/d in lowest terms with a positive denominator (d # 0)
Rat(n, d) ==
  LET s == IF d < 0 THEN -1 ELSE 1
      g == GCD(Abs(n), Abs(d))
  IN  IF d = 1 THEN <<n, 1>> ELSE <<(s * n) \div g, (s * d) \div g>>

RInt(n) == <<n, 1>>

RAdd(x, y) ==
  LET l == LCM(x[2], y[2])
  IN  IF x[1] = 0 THEN y
      ELSE IF y[1] = 0 THEN x
      ELSE IF x[2] = y[2] THEN Rat(x[1] + y[1], x[2])
      ELSE Rat(x[1] * (l \div x[2]) + y[1] * (l \div y[2]), l)

RNeg(x) == <<-x[1], x[2]>>

RSub(x, y) == RAdd(x, RNeg(y))

RMul(x, y) ==
  LET g1 == GCD(Abs(x[1]), y[2])
      g2 == GCD(Abs(y[1]), x[2])
  IN  IF x[1] = 0 \/ y[1] = 0 THEN <<0, 1>>
      ELSE IF x[2] = 1 /\ y[2] = 1 THEN <<x[1] * y[1], 1>>
      ELSE <<(x[1] \div g1) * (y[1] \div g2), (x[2] \div g2) * (y[2] \div g1)>>

\* x / y, y # 0
RDiv(x, y) == RMul(x, Rat(y[2], y[1]))

RAbs(x) == <<Abs(x[1]), x[2]>>

RLe(x, y) ==
  LET l == LCM(x[2], y[2])
  IN  IF x[2] = y[2] THEN x[1] <= y[1]
      ELSE x[1] * (l \div x[2]) <= y[1] * (l \div y[2])

RLt(x, y) == x # y /\ RLe(x, y)

\* numpy's floor and its % 1 (the result of % 1 lies in [0, 1))
RFloor(x) == x[1] \div x[2]

RMod1(x) == <<x[1] % x[2], x[2]>>

Zero == RInt(0)

\* --------------------------------------------------------------- vectors
Vec(x, y, z) == <<RInt(x), RInt(y), RInt(z)>>

ZeroVec == Vec(0, 0, 0)

VAdd(v, w) == <<RAdd(v[1], w[1]), RAdd(v[2], w[2]), RAdd(v[3], w[3])>>

VSub(v, w) == <<RSub(v[1], w[1]), RSub(v[2], w[2]), RSub(v[3], w[3])>>

\* np.multiply and np.divide of two 3-vectors, component by component
VMul(v, w) == <<RMul(v[1], w[1]), RMul(v[2], w[2]), RMul(v[3], w[3])>>

VDiv(v, w) == <<RDiv(v[1], w[1]), RDiv(v[2], w[2]), RDiv(v[3], w[3])>>

VScale(s, v) == <<RMul(s, v[1]), RMul(s, v[2]), RMul(s, v[3])>>

\* a function on 1..n as the sequence of its values
Rows(f) == SubSeq(f, 1, Len(f))

\* the element of a set of one element.  Only({F : x \in {e}}) is F where x
\* is e, with e computed once
Only(S) == CHOOSE r \in S : TRUE

\* squared Euclidean norm
Norm2(v) == RAdd(RAdd(RMul(v[1], v[1]), RMul(v[2], v[2])), RMul(v[3], v[3]))

\* -------------------------------------------------------------- lattices
\* an angle, by its cosine and sine
Angle(c, s) == [cos |-> c, sin |-> s]

\* 90 degrees, and the obtuse angle of cosine -3/5 (126.87 degrees)
Right == Angle(Zero, RInt(1))

Obtuse == Angle(Rat(-3, 5), Rat(4, 5))

\* a lattice: its matrix (one lattice vector per row), kept with the angle
\* gamma between the vectors a and b that lengths_and_angles derives from it
Lattice(matrix, gamma) == [matrix |-> matrix, gamma |-> gamma]

\* Lattice.from_parameters(a, b, c, 90, 90, gamma): a along x, b in the x-y
\* plane at the angle gamma from a, c along z; a negative length turns its
\* vector round
from_parameters(a, b, c, gamma) ==
  Lattice(<<<<a, Zero, Zero>>,
            <<RMul(b, gamma.cos), RMul(b, gamma.sin), Zero>>,
            <<Zero, Zero, c>>>>, gamma)

\* Lattice.a, .b, .c (lengths_and_angles[0]): the norms of the lattice vectors
abc(l) ==
  <<RAbs(l.matrix[1][1]),
    IF l.gamma = Right THEN RAbs(l.matrix[2][2])
    ELSE RDiv(RAbs(l.matrix[2][2]), l.gamma.sin),
    RAbs(l.matrix[3][3])>>

\* lengths_and_angles[1]: alpha = beta = 90 degrees, and gamma
angles(l) == l.gamma

\* Lattice.volume: |det(matrix)|
volume(l) == RAbs(RMul(RMul(l.matrix[1][1], l.matrix[2][2]), l.matrix[3][3]))

\* Lattice.from_lengths_and_angles(lengths, angles): from_parameters of the
\* lengths, whatever their sign
from_lengths_and_angles(lengths, gamma) ==
  from_parameters(lengths[1], lengths[2], lengths[3], gamma)

\* PeriodicSite.coords: the Cartesian coordinates of fractional coordinates,
\* np.dot(frac, matrix)
coords(l, frac) ==
  <<IF l.gamma = Right THEN RMul(frac[1], l.matrix[1][1])
    ELSE RAdd(RMul(frac[1], l.matrix[1][1]), RMul(frac[2], l.matrix[2][1])),
    RMul(frac[2], l.matrix[2][2]),
    RMul(frac[3], l.matrix[3][3])>>

\* Lattice.get_fractional_coords: np.dot(cart, inv(matrix))
get_fractional_coords(l, cart) ==
  Only({
    <<IF l.gamma = Right THEN RDiv(cart[1], l.matrix[1][1])
      ELSE RDiv(RSub(cart[1], RMul(f2, l.matrix[2][1])), l.matrix[1][1]),
      f2,
      RDiv(cart[3], l.matrix[3][3])>>
    : f2 \in {RDiv(cart[2], l.matrix[2][2])}})

\* ------------------------------------------------- nearest periodic image
\* arange, brange, crange of Lattice.get_points_in_sphere: the image indices
\* searched in each direction around `center` for a point whose fractional
\* coordinates modulo 1 are fcoords, in ascending order.  Of the images in
\* the sphere only those at the least distance can come first, and the
\* others need not be listed: the two images that bracket the centre in each
\* direction, floor(pcoords - fcoords) + {0, 1}, are.  With right angles the
\* squared distance is a sum of one term per direction, least at one of the
\* two.  In the a-b plane of a cell with a = b and cos(gamma) = -3/5 no point
\* is farther than 0.56 a from the nearest point of the lattice, and the
\* lines of the lattice along a or b are 0.8 a apart: a nearest image lies
\* less than one index from the centre along a and along b.
ImageWindow(l, fcoords, center) ==
  LET range(lowest) == <<lowest, lowest + 1>>
      search(pcoords) ==
        <<range(RFloor(RSub(pcoords[1], fcoords[1]))),
          range(RFloor(RSub(pcoords[2], fcoords[2]))),
          range(RFloor(RSub(pcoords[3], fcoords[3])))>>
  IN  Only({search(v) : v \in {get_fractional_coords(l, center)}})

\* Structure.get_sites_in_sphere(coords, r) of a one-site structure, for
\* r = |a + b + c|: the periodic images of the site (fractional coordinates
\* frac) within r of the Cartesian point `center`, in the order of the search
\* (the a index varies slowest, the c index fastest), each with its image
\* index n, its fractional coordinates and d2 = np.sum((coords - center) ** 2)
get_sites_in_sphere(l, frac, center) ==
  LET m == l.matrix
      r2 == Norm2(VAdd(VAdd(m[1], m[2]), m[3]))
      sq(x) == RMul(x, x)
      \* the fractional coordinates of the images along direction d
      along(fcoords, d, range) ==
        Rows([k \in 1..Len(range) |-> RAdd(fcoords[d], RInt(range[k]))])
      \* the squares of x and y: plane[ka][kb] for the indices ka of a and
      \* kb of b; and the squares of z
      plane(fa, fb) ==
        Rows([ka \in 1..Len(fa) |->
          Only({
            Rows([kb \in 1..Len(fb) |->
              RAdd(sq(IF l.gamma = Right THEN xa
                      ELSE RAdd(xa, RMul(fb[kb], m[2][1]))),
                   sq(RSub(RMul(fb[kb], m[2][2]), center[2])))])
            : xa \in {RSub(RMul(fa[ka], m[1][1]), center[1])}})])
      axis(fc) ==
        Rows([kc \in 1..Len(fc) |-> sq(RSub(RMul(fc[kc], m[3][3]), center[3]))])
      images(w, f, xy, z) ==
        LET B == Len(w[2])
            C == Len(w[3])
        IN  Rows([t \in 1..(Len(w[1]) * B * C) |->
              LET ka == 1 + ((t - 1) \div (B * C))
                  kb == 1 + (((t - 1) \div C) % B)
                  kc == 1 + ((t - 1) % C)
              IN  [n |-> <<w[1][ka], w[2][kb], w[3][kc]>>,
                   frac |-> <<f[1][ka], f[2][kb], f[3][kc]>>,
                   d2 |-> RAdd(xy[ka][kb], z[kc])]])
      within(fcoords) ==
        Only({
          Only({
            Only({
              SelectSeq(ns, LAMBDA s : RLe(s.d2, r2))
              : ns \in {images(w, f, plane(f[1], f[2]), axis(f[3]))}})
            : f \in {<<along(fcoords, 1, w[1]), along(fcoords, 2, w[2]),
                 along(fcoords, 3, w[3])>>}})
          : w \in {ImageWindow(l, fcoords, center)}})
  IN  Only({within(v) : v \in {<<RMod1(frac[1]), RMod1(frac[2]), RMod1(frac[3])>>}})

\* no image: the doubles order equidistant images as the search does
NoImage == <<>>

\* ns.sort(key=distance); ns[0]: of the first n entries of ns, the first of
\* those at the least distance (the sort is stable).  The distance of an entry
\* is d2 as far as exact arithmetic tells two distances apart; of entries
\* whose d2 are equal, the image `favoured` has the least distance in doubles.
RECURSIVE first_nearest(_, _, _)
first_nearest(ns, n, favoured) ==
  IF n = 1 THEN ns[1]
  ELSE Only({
         IF ns[n].d2 = best.d2
         THEN IF ns[n].n = favoured THEN ns[n] ELSE best
         ELSE IF RLt(ns[n].d2, best.d2) THEN ns[n] ELSE best
         : best \in {first_nearest(ns, n - 1, favoured)}})

\* Structure.get_nearest_site(coords, site) of a one-site structure: the
\* periodic image of the site nearest to the Cartesian point `center`, among
\* the images inside the sphere of radius |a + b + c| around it; of several
\* nearest images the first in the search order.  The periodic site found, or
\* IndexError when the sphere holds no image.
\* The distances are computed in doubles.  Two images equidistant in exact
\* arithmetic have doubles that are equal when nothing on the way to them was
\* rounded, and the first in the search order is returned; otherwise the
\* doubles differ by rounding, and whichever of the images has the least one
\* is returned: favoured is the index of that image, or NoImage when it is
\* the first in the search order.
get_nearest_site(l, frac, center, favoured) ==
  Only({
    IF ns = <<>> THEN [raises |-> "IndexError", frac |-> frac]
    ELSE [raises |-> "", frac |-> first_nearest(ns, Len(ns), favoured).frac]
    : ns \in {get_sites_in_sphere(l, frac, center)}})

\* ------------------------------------------------------------ return values
Return(v) == [raises |-> "", value |-> v]

Raise(e) == [raises |-> e, value |-> <<>>]

\* len() of an np.matrix built from a list of rows: np.matrix([]) has shape
\* (1, 0), so its len() is 1
MatLen(m) == IF m = <<>> THEN 1 ELSE Len(m)

\* ------------------------------------------------------------ Polarization
\* sign of e_to_muC * cm2_to_A2 = -1602.1766; converted values are counted in
\* multiples of 1602.1766
UnitFactor == -1

\* (faulty variant) only the two dipole sequences are compared
Polarization_init_dipoles_only(p_elecs, p_ions, structures) ==
  IF Len(p_elecs) # Len(p_ions)
  THEN Raise("ValueError")
  ELSE Return([p_elecs |-> p_elecs, p_ions |-> p_ions, structures |-> structures])

\* Polarization.__init__: the stored sequences, or ValueError
Polarization_init(p_elecs, p_ions, structures) ==
  IF Len(p_elecs) # Len(p_ions) \/ Len(p_elecs) # Len(structures)
  THEN Raise("ValueError")
  ELSE Return([p_elecs |-> p_elecs, p_ions |-> p_ions, structures |-> structures])

\* (faulty variant) one factor for the whole path, from the first structure's volume
units_of_first(structures) ==
  Rows([i \in 1..Len(structures) |->
          RDiv(RInt(UnitFactor), volume(structures[1].lattice))])

\* units = 1.0 / volumes * (e_to_muC * cm2_to_A2): one factor per structure
units(structures) ==
  Rows([i \in 1..Len(structures) |->
          RDiv(RInt(UnitFactor), volume(structures[i].lattice))])

\* np.multiply(units, p.T).T: row i of p times units[i]
scale_rows(u, p) == Rows([i \in 1..Len(p) |-> VScale(u[i], p[i])])

\* Polarization.get_pelecs_and_pions
get_pelecs_and_pions(self, convert_to_muC_per_cm2) ==
  IF ~convert_to_muC_per_cm2
  THEN <<self.p_elecs, self.p_ions>>
  ELSE <<scale_rows(units(self.structures), self.p_elecs),
         scale_rows(units(self.structures), self.p_ions)>>

\* (faulty variant) every lattice is rescaled by the first structure's factor
adjusted_lattices_first_scale(structures, convert_to_muC_per_cm2) ==
  LET u == units(structures)
  IN  Rows([i \in 1..Len(structures) |->
             IF convert_to_muC_per_cm2
             THEN from_lengths_and_angles(VScale(u[1], abc(structures[i].lattice)),
                                          angles(structures[i].lattice))
             ELSE structures[i].lattice])

\* (faulty variant) the lattices are rescaled whatever the flag
adjusted_lattices_always(structures, convert_to_muC_per_cm2) ==
  LET u == units(structures)
  IN  Rows([i \in 1..Len(structures) |->
             from_lengths_and_angles(VScale(u[i], abc(structures[i].lattice)),
                                     angles(structures[i].lattice))])

\* lattices = [s.lattice for s in self.structures], then, with conversion,
\* lattices[i] = Lattice.from_lengths_and_angles(np.array(l) * units.A1[i], a)
adjusted_lattices(structures, convert_to_muC_per_cm2) ==
  LET u == units(structures)
  IN  Rows([i \in 1..Len(structures) |->
             IF convert_to_muC_per_cm2
             THEN from_lengths_and_angles(VScale(u[i], abc(structures[i].lattice)),
                                          angles(structures[i].lattice))
             ELSE structures[i].lattice])

\* frac_coord = np.divide(p_tot[i], [l.a, l.b, l.c])
frac_coord(p, l) == VDiv(p, abc(l))

\* (faulty variant) every step is matched to the origin
prev_site_origin(i, sites, lattices) == ZeroVec

\* the reference point of step i (1-based): the origin for the first step,
\* the Cartesian coordinates of the site chosen for the step before otherwise
prev_site(i, sites, lattices) ==
  IF i = 1 THEN ZeroVec ELSE coords(lattices[i - 1], sites[i - 1])

\* (faulty variant) no step is matched: every site stays where the raw total puts it
new_site_as_given(i, l, frac, prev, favoured) == [raises |-> "", frac |-> frac]

\* (faulty variant) the first step is not matched to the origin
new_site_keep_first(i, l, frac, prev, favoured) ==
  IF i = 1 THEN [raises |-> "", frac |-> frac]
  ELSE get_nearest_site(l, frac, prev, favoured)

\* new_site = d.get_nearest_site(prev_site, site)
new_site(i, l, frac, prev, favoured) == get_nearest_site(l, frac, prev, favoured)

\* the image that the doubles of step i bring out nearest among equidistant
\* ones (rounding: pairs <<step, image index>>, at most one for a step)
favoured_at(rounding, i) ==
  IF \E e \in rounding : e[1] = i
  THEN (CHOOSE e \in rounding : e[1] = i)[2]
  ELSE NoImage

\* the loop over the steps: the fractional coordinates of the sites chosen
\* for steps 1..i, or the error raised on the way
RECURSIVE branch_sites(_, _, _, _)
branch_sites(p_tot, lattices, i, rounding) ==
  LET step(before) ==
        IF before.raises # "" THEN before
        ELSE LET l == lattices[i]
                 nearest(site) ==
                   IF site.raises # "" THEN Raise(site.raises)
                   ELSE Return(Append(before.value, site.frac))
             IN  Only({
                   Only({nearest(v) : v \in {new_site(i, l, frac_coord(p_tot[i], l), prev,
                                 favoured_at(rounding, i))}})
                   : prev \in {prev_site(i, before.value, lattices)}})
  IN  IF i = 0 THEN Return(<<>>)
      ELSE Only({step(v) : v \in {branch_sites(p_tot, lattices, i - 1, rounding)}})

\* (faulty variant) the fractional coordinates themselves
adjust_pol_fractional(sites, lattices) ==
  Rows([i \in 1..Len(sites) |-> sites[i]])

\* adjust_pol: s.frac_coords times [l.a, l.b, l.c], one row per step
adjust_pol(sites, lattices) ==
  Rows([i \in 1..Len(sites) |-> VMul(sites[i], abc(lattices[i]))])

\* Polarization.get_same_branch_polarization_data (rounding: the images that
\* the doubles of this call bring out nearest among equidistant ones, one of
\* call_roundings)
get_same_branch_polarization_data(self, convert_to_muC_per_cm2, rounding) ==
  LET pp == get_pelecs_and_pions(self, FALSE)
      p_raw == Rows([i \in 1..Len(pp[1]) |-> VAdd(pp[1][i], pp[2][i])])
      L == MatLen(pp[1])
      p_tot == IF convert_to_muC_per_cm2
               THEN scale_rows(units(self.structures), p_raw)
               ELSE p_raw
      loop(lattices) ==
        IF L > Len(lattices) THEN Raise("IndexError")
        ELSE Only({
               IF sites.raises # "" THEN sites
               ELSE Return(adjust_pol(sites.value, lattices))
               : sites \in {branch_sites(p_tot, lattices, L, rounding)}})
  IN  Only({loop(v) : v \in {adjusted_lattices(self.structures, convert_to_muC_per_cm2)}})

\* the images of the site at the least distance from `center`, in the order
\* of the search
equidistant(l, frac, center) ==
  Only({
    IF ns = <<>> THEN <<>>
    ELSE Only({
           Only({
             Rows([k \in 1..Len(nearest) |-> nearest[k].n])
             : nearest \in {SelectSeq(ns, LAMBDA s : s.d2 = least)}})
           : least \in {first_nearest(ns, Len(ns), NoImage).d2}})
    : ns \in {get_sites_in_sphere(l, frac, center)}})

\* x = k / 2^j: a double holds x, and its small multiples, exactly
RECURSIVE PowerOfTwo(_)
PowerOfTwo(d) == d = 1 \/ (d % 2 = 0 /\ PowerOfTwo(d \div 2))

Dyadic(x) == PowerOfTwo(x[2])

\* The doubles of the distances of a step's equidistant images are equal:
\* nothing on the way to them is rounded.  That is so when only the vector c,
\* which from_parameters sets to [0, 0, c] exactly (a and b carry
\* cos(pi / 2) = 6e-17), enters them, the site (modulo 1) and the centre
\* lying on the c axis, and
\* - without conversion, the site's fraction of c and that of the site chosen
\*   before it (whose coordinates are the centre) are k / 2^j;
\* - with conversion, where every length and dipole is a rounded multiple of
\*   -1602.1766 / volume, the site is on the c axis before the modulo too, the
\*   centre is the origin and the site half of c from it, to either side.
\* (frac: p_tot[i] / [l.a, l.b, l.c]; before: the sites chosen for the steps
\* before)
exactly_computed(frac, before, center, convert_to_muC_per_cm2) ==
  /\ center[1] = Zero /\ center[2] = Zero
  /\ IF convert_to_muC_per_cm2
     THEN /\ frac[1] = Zero /\ frac[2] = Zero
          /\ center[3] = Zero /\ RAbs(frac[3]) = Rat(1, 2)
     ELSE /\ RMod1(frac[1]) = Zero /\ RMod1(frac[2]) = Zero
          /\ Dyadic(frac[3])
          /\ before # <<>> => Dyadic(before[Len(before)][3])

\* the branches that steps 1..i of the loop can take: the sites chosen, the
\* rounding under which they are, and whether a step had equidistant images.
\* At each step that has equidistant images whose doubles are not exactly
\* computed, after the choices made before it, any of the images may come
\* out nearest.
RECURSIVE met_branches(_, _, _, _)
met_branches(p_tot, lattices, i, convert_to_muC_per_cm2) ==
  LET chosen(b, s, favoured, tie) ==
        [rounding |-> b.rounding \cup favoured, sites |-> Append(b.sites, s.frac),
         raises |-> "", equidistant |-> b.equidistant \/ tie]
      choices(b, frac, center, nearest) ==
        IF Len(nearest) < 2 THEN {chosen(b, nearest[1], {}, FALSE)}
        ELSE IF exactly_computed(frac, b.sites, center, convert_to_muC_per_cm2)
        THEN {chosen(b, nearest[1], {}, TRUE)}
        ELSE {chosen(b, nearest[k], IF k = 1 THEN {} ELSE {<<i, nearest[k].n>>}, TRUE) :
                k \in 1..Len(nearest)}
      search(b, frac, center) ==
        Only({
          IF ns = <<>> THEN {[b EXCEPT !.raises = "IndexError"]}
          ELSE Only({
                 Only({
                   choices(b, frac, center, nearest)
                   : nearest \in {SelectSeq(ns, LAMBDA s : s.d2 = least)}})
                 : least \in {first_nearest(ns, Len(ns), NoImage).d2}})
          : ns \in {get_sites_in_sphere(lattices[i], frac, center)}})
      further(b) ==
        IF b.raises # "" THEN {b}
        ELSE search(b, frac_coord(p_tot[i], lattices[i]),
                    prev_site(i, b.sites, lattices))
  IN  IF i = 0
      THEN {[rounding |-> {}, sites |-> <<>>, raises |-> "", equidistant |-> FALSE]}
      ELSE UNION {further(b) :
                    b \in met_branches(p_tot, lattices, i - 1, convert_to_muC_per_cm2)}

\* the roundings that steps 1..i of the loop can meet
met_roundings(p_tot, lattices, i, convert_to_muC_per_cm2) ==
  {b.rounding : b \in met_branches(p_tot, lattices, i, convert_to_muC_per_cm2)}

\* how the doubles of a call (unconverted or converted) on an object of
\* these dipoles and structures may order the equidistant images it meets
call_roundings(p_elecs, p_ions, structures, convert_to_muC_per_cm2) ==
  LET p_raw == Rows([i \in 1..Len(p_elecs) |-> VAdd(p_elecs[i], p_ions[i])])
  IN  IF Len(p_elecs) # Len(p_ions) \/ Len(p_elecs) # Len(structures) THEN {{}}
      ELSE met_roundings(
             IF convert_to_muC_per_cm2 THEN scale_rows(units(structures), p_raw)
             ELSE p_raw,
             adjusted_lattices(structures, convert_to_muC_per_cm2), Len(structures),
             convert_to_muC_per_cm2)

\* the roundings of an object: one for its unconverted calls and one for its
\* converted calls (the two compute with different doubles), each any of the
\* roundings its kind of call can meet
RoundingChoices(p_elecs, p_ions, structures) ==
  {[unconverted |-> u, converted |-> c] :
     u \in call_roundings(p_elecs, p_ions, structures, FALSE),
     c \in call_roundings(p_elecs, p_ions, structures, TRUE)}

\* the roundings of an object of which one call is made: the rounding of the
\* other kind of call, which is not read, is left empty
OneCallRoundingChoices(p_elecs, p_ions, structures) ==
  {[unconverted |-> u, converted |-> {}] :
     u \in call_roundings(p_elecs, p_ions, structures, FALSE)}
  \cup {[unconverted |-> {}, converted |-> c] :
          c \in call_roundings(p_elecs, p_ions, structures, TRUE)}

\* the roundings of an object of which only converted calls are made
ConvertedRoundingChoices(p_elecs, p_ions, structures) ==
  {[unconverted |-> {}, converted |-> c] :
     c \in call_roundings(p_elecs, p_ions, structures, TRUE)}

\* Polarization.get_lattice_quanta
get_lattice_quanta(self, convert_to_muC_per_cm2) ==
  LET lattices == adjusted_lattices(self.structures, convert_to_muC_per_cm2)
  IN  Return(Rows([i \in 1..Len(lattices) |-> abc(lattices[i])]))

\* (faulty variant) the difference of the unconverted same-branch values
get_polarization_change_raw(self, rounding) ==
  Only({
    IF tot.raises # "" THEN tot
    ELSE Return(VSub(tot.value[Len(tot.value)], tot.value[1]))
    : tot \in {get_same_branch_polarization_data(self, FALSE, rounding)}})

\* Polarization.get_polarization_change: tot[-1] - tot[0]
get_polarization_change(self, rounding) ==
  Only({
    IF tot.raises # "" THEN tot
    ELSE Return(VSub(tot.value[Len(tot.value)], tot.value[1]))
    : tot \in {get_same_branch_polarization_data(self, TRUE, rounding)}})

\* ------------------------------------------------------------- splines
\* no spline: what `except: sp = None` leaves
None == [available |-> FALSE, k |-> 0, y |-> <<>>]

\* scipy's UnivariateSpline(range(L), y, k=k): fitting needs more than k
\* points and raises otherwise; `refused` says that the primitive cannot fit
\* this series for a reason of its own.  The fitted spline is kept as the
\* data it fits.
UnivariateSpline(y, k, refused) ==
  IF refused \/ Len(y) <= k THEN Raise("error")
  ELSE Return([available |-> TRUE, k |-> k, y |-> y])

\* tot[:, d].A1: one column of the same-branch matrix
column(tot, d) == Rows([i \in 1..Len(tot) |-> tot[i][d]])

\* try: sp = UnivariateSpline(range(L), tot[:, d].A1)  except: sp = None
\* (fit_failure: the directions whose series the primitive refuses)
try_spline(tot, d, fit_failure) ==
  Only({
    IF sp.raises # "" THEN None ELSE sp.value
    : sp \in {UnivariateSpline(column(tot, d), 3, d \in fit_failure)}})

\* (faulty variant) one try around the three fits: a failure leaves every
\* spline None
same_branch_splines_one_try(self, fit_failure, rounding) ==
  Only({
    IF tot.raises # "" THEN tot
    ELSE IF \E d \in Dirs : try_spline(tot.value, d, fit_failure) = None
    THEN Return(<<None, None, None>>)
    ELSE Return(<<try_spline(tot.value, 1, fit_failure),
                  try_spline(tot.value, 2, fit_failure),
                  try_spline(tot.value, 3, fit_failure)>>)
    : tot \in {get_same_branch_polarization_data(self, TRUE, rounding)}})

\* Polarization.same_branch_splines
same_branch_splines(self, fit_failure, rounding) ==
  Only({
    IF tot.raises # "" THEN tot
    ELSE Return(<<try_spline(tot.value, 1, fit_failure),
                  try_spline(tot.value, 2, fit_failure),
                  try_spline(tot.value, 3, fit_failure)>>)
    : tot \in {get_same_branch_polarization_data(self, TRUE, rounding)}})

\* (faulty variant) the spline is called whether it is there or not
max_jump_unguarded(tot, sp, d) ==
  [available |-> TRUE, max_of |-> column(tot, d), minus |-> sp]

\* max_jumps[i] = max(tot[:, i].A1 - sp(range(L))) for a direction with a
\* spline (the value of a spline is not computed: the maximum is kept as the
\* term it is), None otherwise
max_jump(tot, sp, d) ==
  IF sp # None
  THEN [available |-> TRUE, max_of |-> column(tot, d), minus |-> sp]
  ELSE [available |-> FALSE, max_of |-> <<>>, minus |-> None]

\* Polarization.max_spline_jumps
max_spline_jumps(self, fit_failure, rounding) ==
  Only({
    IF tot.raises # "" THEN tot
    ELSE Only({
           IF sps.raises # "" THEN sps
           ELSE Return(<<max_jump(tot.value, sps.value[1], 1),
                         max_jump(tot.value, sps.value[2], 2),
                         max_jump(tot.value, sps.value[3], 3)>>)
           : sps \in {same_branch_splines(self, fit_failure, rounding)}})
    : tot \in {get_same_branch_polarization_data(self, TRUE, rounding)}})

\* rms[i]: the root mean square of sp[i](range(L)) - tot[:, i].A1, kept as
\* the term it is
rms(tot, sp, d) == [rms_of |-> column(tot, d), minus |-> sp]

\* Polarization.smoothness: calling a spline that is None raises TypeError
smoothness(self, fit_failure, rounding) ==
  Only({
    IF tot.raises # "" THEN tot
    ELSE Only({
           IF sp.raises # "" THEN Return(None)
           ELSE IF \E d \in Dirs : sp.value[d] = None THEN Raise("TypeError")
           ELSE Return(<<rms(tot.value, sp.value[1], 1),
                         rms(tot.value, sp.value[2], 2),
                         rms(tot.value, sp.value[3], 3)>>)
           : sp \in {same_branch_splines(self, fit_failure, rounding)}})
    : tot \in {get_same_branch_polarization_data(self, TRUE, rounding)}})

\* (faulty variant) the rescaled lattices are written into the structures
structures_adjusted_in_place(structures, lattices) ==
  Rows([i \in 1..Len(structures) |-> [structures[i] EXCEPT !.lattice = lattices[i]]])

\* What the methods that rebind entries of their local list `lattices` leave
\* in self.structures: [s.lattice for s in self.structures] is a new list and
\* Lattice.from_lengths_and_angles builds new lattices, so the structures
\* keep theirs.
structures_after_adjust(structures, lattices) == structures

\* ------------------------------------------------------------- EnergyTrend
\* what a method returned or raised, and what it printed
WithPrinted(r, text) == [raises |-> r.raises, value |-> r.value, printed |-> text]

\* EnergyTrend.__init__
EnergyTrend_init(energies) == [energies |-> energies]

\* EnergyTrend.spline: UnivariateSpline(range(len(energies)), energies, k=4)
EnergyTrend_spline(self, refused) ==
  WithPrinted(UnivariateSpline(self.energies, 4, refused), "")

\* (faulty variant) no try around self.spline()
EnergyTrend_smoothness_propagates(self, refused) ==
  LET sp == EnergyTrend_spline(self, refused)
  IN  IF sp.raises # "" THEN sp
      ELSE WithPrinted(Return([rms_of |-> self.energies, minus |-> sp.value]), "")

\* EnergyTrend.smoothness: the root mean square of sp(range(L)) - energies,
\* kept as the term it is; None, with a message, when the fit fails
EnergyTrend_smoothness(self, refused) ==
  LET sp == EnergyTrend_spline(self, refused)
  IN  IF sp.raises # "" THEN WithPrinted(Return(None), "Energy spline failed.")
      ELSE WithPrinted(Return([rms_of |-> self.energies, minus |-> sp.value]), "")

\* EnergyTrend.max_spline_jump: max(energies - sp(range(L))), kept as the
\* term it is
max_spline_jump(self, refused) ==
  LET sp == EnergyTrend_spline(self, refused)
  IN  IF sp.raises # "" THEN sp
      ELSE WithPrinted(Return([max_of |-> self.energies, minus |-> sp.value]), "")

\* der = sp.derivative(); der_energies = der(range(L)): of the values of the
\* derivative the code reads der_energies[0] and der_energies[-1], which the
\* fit decides (slopes = <<at the first index, at the last index>>)
der_energies(sp, slopes) == [first |-> slopes[1], last |-> slopes[2]]

\* (faulty variant) the two flags change places
endpoints_minima_swapped(self, slope_cutoff, refused, slopes) ==
  LET sp == EnergyTrend_spline(self, refused)
      der == der_energies(sp.value, slopes)
  IN  IF sp.raises # "" THEN WithPrinted(Return(None), "Energy spline failed.")
      ELSE WithPrinted(Return([polar |-> Abs(der.first) <= slope_cutoff,
                               nonpolar |-> Abs(der.last) <= slope_cutoff]), "")

\* EnergyTrend.endpoints_minima
endpoints_minima(self, slope_cutoff, refused, slopes) ==
  LET sp == EnergyTrend_spline(self, refused)
      der == der_energies(sp.value, slopes)
  IN  IF sp.raises # "" THEN WithPrinted(Return(None), "Energy spline failed.")
      ELSE WithPrinted(Return([polar |-> Abs(der.last) <= slope_cutoff,
                               nonpolar |-> Abs(der.first) <= slope_cutoff]), "")

\* ------------------------------------------------------------ ionic dipole
\* calc_ionic: norms * (-site.frac_coords * zval)
calc_ionic(site, structure, zval) ==
  LET norms == abc(structure.lattice)
  IN  VMul(norms, VScale(RNeg(RInt(zval)), site.frac_coords))

\* (faulty variant) a species zval_dict does not hold counts with charge 0
RECURSIVE tot_ionic_default(_, _, _)
tot_ionic_default(structure, zval_dict, n) ==
  IF n = 0 THEN Return(<<>>)
  ELSE LET before == tot_ionic_default(structure, zval_dict, n - 1)
           site == structure.sites[n]
       IN  Return(Append(before.value,
                         calc_ionic(site, structure,
                                    IF site.specie \in DOMAIN zval_dict
                                    THEN zval_dict[site.specie] ELSE 0)))

\* the loop of get_total_ionic_dipole over the first n sites: the list
\* tot_ionic, or the KeyError of a species zval_dict does not hold
RECURSIVE tot_ionic(_, _, _)
tot_ionic(structure, zval_dict, n) ==
  IF n = 0 THEN Return(<<>>)
  ELSE LET before == tot_ionic(structure, zval_dict, n - 1)
           site == structure.sites[n]
       IN  IF before.raises # "" THEN before
           ELSE IF site.specie \notin DOMAIN zval_dict THEN Raise("KeyError")
           ELSE Return(Append(before.value,
                              calc_ionic(site, structure, zval_dict[site.specie])))

\* np.sum(rows, axis=0) of a list of 3-vectors; of the empty list, the
\* number 0.0
RECURSIVE np_sum(_)
np_sum(rows) ==
  IF Len(rows) = 0 THEN Zero
  ELSE IF Len(rows) = 1 THEN rows[1]
  ELSE VAdd(np_sum(SubSeq(rows, 1, Len(rows) - 1)), rows[Len(rows)])

\* get_total_ionic_dipole
get_total_ionic_dipole(structure, zval_dict) ==
  LET t == tot_ionic(structure, zval_dict, Len(structure.sites))
  IN  IF t.raises # "" THEN t ELSE Return(np_sum(t.value))

\* ---------------------------------------------------------------- Cohpcar
\* (src/pymatgen/io/lobster.py)  A bond header line, "No.4:Fe1->Fe9(2.45)" or
\* "No.1:Fe1[3p_x]->Fe2[3d_xy](2.45)", is kept as its parts:
\* [no, sites (1-based), length, orbitals (<<>> or the two bracketed orbitals,
\* each as <<orb[0], orb[1:]>>: its leading digit and the rest)].
\* A column of the data block is kept as its index.
Column(n) == [column |-> n]

\* the orbital labels LOBSTER writes, in the order of the Orbital enumeration
orb_labs ==
  <<"s", "p_y", "p_z", "p_x", "d_xy", "d_yz", "d_z^2", "d_xz", "d_x^2-y^2",
    "f_y(3x^2-y^2)", "f_xyz", "f_yz^2", "f_z^3", "f_xz^2", "f_z(x^2-y^2)",
    "f_x(x^2-3y^2)">>

\* pymatgen.electronic_structure.core.Orbital(value): the member of that value
Orbital(value) ==
  [value |-> value,
   name |-> <<"s", "py", "pz", "px", "dxy", "dyz", "dz2", "dxz", "dx2",
              "f_3", "f_2", "f_1", "f0", "f1", "f2", "f3">>[value + 1]]

\* orb_labs.index(lab), for a label of the list
index(labs, lab) == (CHOOSE i \in 1..Len(labs) : labs[i] = lab) - 1

\* Cohpcar._get_bond_data: the site indices become 0-based; the bond number
\* of the line is not read; an orbital "3p_x" becomes (3, Orbital.px) and the
\* label of two orbitals is made of the names of the members, "3s-3px"
get_bond_data(line) ==
  LET orbitals == Rows([k \in 1..Len(line.orbitals) |->
                          <<line.orbitals[k][1],
                            Orbital(index(orb_labs, line.orbitals[k][2]))>>])
  IN  [length |-> line.length,
       sites |-> <<line.sites[1] - 1, line.sites[2] - 1>>,
       orbitals |-> IF line.orbitals = <<>> THEN None ELSE orbitals,
       orb_label |-> IF line.orbitals = <<>> THEN None
                     ELSE ToString(orbitals[1][1]) \o orbitals[1][2].name \o "-"
                          \o ToString(orbitals[2][1]) \o orbitals[2][2].name]

\* d[key] = value
SetItem(d, key, value) ==
  [k \in DOMAIN d \cup {key} |-> IF k = key THEN value ELSE d[k]]

\* the entries made for a bond and for an orbital-resolved line (spin up)
BondEntry(cohp, icohp, bond_data) ==
  [COHP |-> cohp, ICOHP |-> icohp,
   length |-> bond_data.length, sites |-> bond_data.sites]

OrbEntry(bond, bond_data) ==
  [COHP |-> Column(2 * bond + 3), ICOHP |-> Column(2 * bond + 4),
   orbitals |-> bond_data.orbitals,
   length |-> bond_data.length, sites |-> bond_data.sites]

\* one pass of the loop `for bond in range(num_bonds)` (bond is 0-based)
read_bond(st, bond, line) ==
  LET bond_data == get_bond_data(line)
      label == ToString(st.bondnumber)
      next == ToString(st.bondnumber + 1)
      orb == OrbEntry(bond, bond_data)
  IN  IF bond_data.orbitals = None
      THEN [bondnumber |-> st.bondnumber + 1,
            cohp_data |-> SetItem(st.cohp_data, next,
                            BondEntry(Column(2 * bond + 3), Column(2 * bond + 4),
                                      bond_data)),
            orb_cohp |-> st.orb_cohp]
      ELSE IF label \in DOMAIN st.orb_cohp
      THEN [bondnumber |-> st.bondnumber,
            cohp_data |-> st.cohp_data,
            orb_cohp |-> SetItem(st.orb_cohp, label,
                           SetItem(st.orb_cohp[label], bond_data.orb_label, orb))]
      ELSE [bondnumber |-> IF label \notin DOMAIN st.cohp_data
                           THEN st.bondnumber + 1 ELSE st.bondnumber,
            cohp_data |-> IF label \notin DOMAIN st.cohp_data
                          THEN SetItem(st.cohp_data, label,
                                       BondEntry(None, None, bond_data))
                          ELSE st.cohp_data,
            orb_cohp |-> SetItem(st.orb_cohp, label,
                           SetItem(<<>>, bond_data.orb_label, orb))]

\* the loop over the first n header lines
RECURSIVE read_bonds(_, _)
read_bonds(lines, n) ==
  IF n = 0
  THEN [bondnumber |-> 0,
        cohp_data |-> SetItem(<<>>, "average",
                              [COHP |-> Column(1), ICOHP |-> Column(2)]),
        orb_cohp |-> <<>>]
  ELSE read_bond(read_bonds(lines, n - 1), n - 1, lines[n])

\* Cohpcar.__init__, from the bond header lines on
Cohpcar_init(lines) ==
  LET st == read_bonds(lines, Len(lines))
  IN  [read |-> TRUE,
       cohp_data |-> st.cohp_data,
       orb_res_cohp |-> IF st.orb_cohp = <<>> THEN None ELSE st.orb_cohp]

\* ----------------------------------------------------------------- inputs
\* structures of a distortion path, by the lengths of their cells, with
\* gamma = 90 degrees and with the obtuse gamma; Polarization reads only the
\* lattice
Structure(a, b, c) ==
  [lattice |-> from_parameters(RInt(a), RInt(b), RInt(c), Right), sites |-> <<>>]

ObliqueStructure(a, b, c) ==
  [lattice |-> from_parameters(RInt(a), RInt(b), RInt(c), Obtuse), sites |-> <<>>]

\* a cubic cell and an orthorhombic one of another volume
StructureChoices == {Structure(4, 4, 4), Structure(2, 3, 4)}

\* the cells of the paths whose branch is checked: the cubic cell and an
\* oblique one
PathStructureChoices == {Structure(4, 4, 4), ObliqueStructure(3, 3, 4)}

\* the cells of the paths that are shifted: a cubic cell in which the totals
\* below are sixths of a quantum along c, and an oblique one in which they
\* are halves
ShiftStructureChoices == {Structure(6, 6, 6), ObliqueStructure(3, 3, 2)}

\* the cell of the objects on which calls are repeated
CallStructureChoices == {Structure(2, 3, 4)}

\* electronic dipoles: zero, half a quantum of the cubic cell along c, and an
\* oblique dipole (half a quantum of the orthorhombic cell along a)
ElecChoices == {Vec(0, 0, 0), Vec(0, 0, 2), Vec(1, -1, 1)}

\* ionic dipoles; the totals reach one quantum along c
IonChoices == {Vec(0, 0, 0), Vec(0, 0, 2)}

\* the (electronic, ionic) dipoles of a step of a path: the totals are zero,
\* half a quantum and one quantum along c, and two oblique ones
DipoleChoices ==
  (ElecChoices \X IonChoices) \ {<<Vec(0, 0, 2), Vec(0, 0, 0)>>}

\* the dipoles of the runs that call every method: the total is oblique, half
\* a quantum of the orthorhombic cell along a
FewElecChoices == {Vec(1, -1, 1)}
FewIonChoices == {Vec(0, 0, 2)}

\* the electronic dipoles of the paths that are shifted: with the ionic
\* dipole the totals are 5 and 8 along c, and an oblique one
ShiftElecChoices == {Vec(0, 0, 3), Vec(0, 0, 6), Vec(1, -1, 1)}

\* the lattices, species, site positions and ZVALs of the structures handed
\* to get_total_ionic_dipole
IonicLattices == {Structure(4, 4, 4).lattice, Structure(2, 3, 4).lattice}

Species == {"Ba", "Ti", "O"}

ZVAL == [Ba |-> 10, Ti |-> 4, O |-> 6]

FracChoices == {<<Rat(1, 2), Rat(1, 2), Rat(1, 2)>>, <<Zero, Rat(1, 4), Rat(3, 4)>>}

PeriodicSite(specie, frac_coords) == [specie |-> specie, frac_coords |-> frac_coords]

\* energies, and slopes and slope cutoffs in units of 1e-3 (the default
\* slope_cutoff of 5e-3 is 5)
EnergyChoices == {0, 1}

SlopeChoices == {-6, -5, 0, 5, 6}

CutoffChoices == {0, 5}

\* the orbital pairs of the orbital-resolved lines of a bond, in file order
OrbitalPairs ==
  <<<<<<3, "s">>, <<3, "s">>>>, <<<<3, "s">>, <<3, "p_x">>>>,
    <<<<3, "p_x">>, <<3, "d_x^2-y^2">>>>>>

\* the header lines of bond `no` (between sites 1 and no + 1): its total
\* line, if the file has one, then norb orbital-resolved lines
BondLines(no, total, norb) ==
  LET line(orbitals) ==
        [no |-> no, sites |-> <<1, no + 1>>, length |-> no + 1, orbitals |-> orbitals]
  IN  (IF total THEN <<line(<<>>)>> ELSE <<>>)
      \o Rows([k \in 1..norb |-> line(OrbitalPairs[k])])

\* the header lines of a file of bonds 1..Len(norbs), norbs[b] orbital lines
\* for bond b
RECURSIVE FileLines(_, _, _)
FileLines(total, norbs, n) ==
  IF n = 0 THEN <<>>
  ELSE FileLines(total, norbs, n - 1) \o BondLines(n, total, norbs[n])

\* ------------------------------------------------------------------ state
VARIABLES
  p_elecs_arg,      \* the arguments of Polarization(p_elecs, p_ions, structures)
  p_ions_arg,
  structures_arg,
  outcome,          \* "pending", "ok" or the exception __init__ raised
  self,             \* the fields of the Polarization object
  call,             \* the last method called and its flag
  ret,              \* what it returned or raised
  earlier,          \* a call made before the last one, and what it returned
  ionic_structure,  \* the arguments of get_total_ionic_dipole
  zval_dict,
  ionic_ret,        \* its result
  rounding,         \* the <<step, image>> that the doubles of the object's
                    \* unconverted calls, and of its converted calls, bring out
                    \* nearest among equidistant images
  fit_failure,      \* the series the spline-fitting primitive refuses to fit
  fit_slopes,       \* the slopes of a fitted energy spline at its two ends
  trend,            \* the fields of the EnergyTrend object
  trend_call,       \* the last EnergyTrend method called and its slope_cutoff
  trend_ret,        \* what it returned, raised and printed
  cohp_lines,       \* the bond header lines of a COHPCAR file
  cohpcar           \* the fields of the Cohpcar object read from it

ionicVars == <<ionic_structure, zval_dict, ionic_ret>>

trendVars == <<fit_slopes, trend, trend_call, trend_ret>>

cohpVars == <<cohp_lines, cohpcar>>

vars == <<p_elecs_arg, p_ions_arg, structures_arg, outcome, self, call, ret, earlier,
          ionicVars, rounding, fit_failure, trendVars, cohpVars>>

\* the rounding of a call with this flag
rounding_of(converted) ==
  IF converted THEN rounding.converted ELSE rounding.unconverted

NoRounding == [unconverted |-> {}, converted |-> {}]

NoObject == [p_elecs |-> <<>>, p_ions |-> <<>>, structures |-> <<>>]

NoCall == <<"", FALSE>>

NotCalled == Raise("not called")

\* no earlier call is remembered; none is to be remembered
NoEarlier == <<NoCall, NotCalled>>

Untracked == <<NoCall, Raise("not remembered")>>

NoIonic ==
  /\ ionic_structure = Structure(4, 4, 4)
  /\ zval_dict = <<>>
  /\ ionic_ret = NotCalled

\* no EnergyTrend object, no COHPCAR file
NoTrendCall == <<"", 0>>

NoTrend ==
  /\ fit_slopes = <<0, 0>>
  /\ trend = [energies |-> <<>>]
  /\ trend_call = NoTrendCall
  /\ trend_ret = [raises |-> "not called", value |-> <<>>, printed |-> ""]

NoCohpcar ==
  /\ cohp_lines = <<>>
  /\ cohpcar = [read |-> FALSE]

\* the primitive fits every series that has points enough; the other classes
\* are not in use
NothingElse ==
  /\ fit_failure = {}
  /\ NoTrend
  /\ NoCohpcar

NoObjectYet ==
  /\ outcome = "pending"
  /\ self = NoObject
  /\ call = NoCall
  /\ ret = NotCalled

\* any three sequences of at most MaxLen entries each
Init ==
  /\ \E nE \in 0..MaxLen, nI \in 0..MaxLen, nS \in 0..MaxLen :
       /\ p_elecs_arg \in [1..nE -> FewElecChoices]
       /\ p_ions_arg \in [1..nI -> FewIonChoices]
       /\ structures_arg \in [1..nS -> StructureChoices]
       /\ rounding \in RoundingChoices(p_elecs_arg, p_ions_arg, structures_arg)
  /\ NoObjectYet
  /\ earlier = Untracked
  /\ NoIonic
  /\ NothingElse

\* a path of 1..MaxLen steps in one cell, on which calls are repeated and an
\* earlier call is remembered
InitCalls ==
  /\ \E n \in 1..MaxLen :
       /\ p_elecs_arg \in [1..n -> FewElecChoices]
       /\ p_ions_arg \in [1..n -> FewIonChoices]
       /\ structures_arg \in [1..n -> CallStructureChoices]
       /\ rounding \in RoundingChoices(p_elecs_arg, p_ions_arg, structures_arg)
  /\ NoObjectYet
  /\ earlier = NoEarlier
  /\ NoIonic
  /\ NothingElse

\* a path of 1..MaxLen steps
InitPath ==
  /\ \E n \in 1..MaxLen :
       /\ \E dipoles \in [1..n -> DipoleChoices] :
            /\ p_elecs_arg = [i \in 1..n |-> dipoles[i][1]]
            /\ p_ions_arg = [i \in 1..n |-> dipoles[i][2]]
       /\ structures_arg \in [1..n -> PathStructureChoices]
       /\ rounding \in OneCallRoundingChoices(p_elecs_arg, p_ions_arg, structures_arg)
  /\ NoObjectYet
  /\ earlier = Untracked
  /\ NoIonic
  /\ NothingElse

\* a path of 1..MaxLen steps whose dipoles are then shifted by quanta
InitShift ==
  /\ \E n \in 1..MaxLen :
       /\ p_elecs_arg \in [1..n -> ShiftElecChoices]
       /\ p_ions_arg \in [1..n -> FewIonChoices]
       /\ structures_arg \in [1..n -> ShiftStructureChoices]
       /\ rounding \in OneCallRoundingChoices(p_elecs_arg, p_ions_arg, structures_arg)
  /\ NoObjectYet
  /\ earlier = Untracked
  /\ NoIonic
  /\ NothingElse

\* Polarization(p_elecs, p_ions, structures)
Construct ==
  /\ outcome = "pending"
  /\ LET r == Polarization_init(p_elecs_arg, p_ions_arg, structures_arg)
     IN  /\ outcome' = IF r.raises = "" THEN "ok" ELSE r.raises
         /\ self' = IF r.raises = "" THEN r.value ELSE NoObject
  /\ UNCHANGED <<p_elecs_arg, p_ions_arg, structures_arg, call, ret, earlier,
                 ionicVars, rounding, fit_failure, trendVars, cohpVars>>

\* where an earlier call is remembered, the call that was the last one until
\* now is remembered from now on, or the one remembered so far is kept
Frame ==
  /\ earlier' \in IF earlier = Untracked \/ call = NoCall THEN {earlier}
                  ELSE {<<call, ret>>} \cup ({earlier} \ {NoEarlier})
  /\ UNCHANGED <<p_elecs_arg, p_ions_arg, structures_arg, outcome,
                 ionicVars, rounding, fit_failure, trendVars, cohpVars>>

Call_get_pelecs_and_pions ==
  /\ outcome = "ok"
  /\ \E flag \in BOOLEAN :
       /\ call' = <<"get_pelecs_and_pions", flag>>
       /\ ret' = Return(get_pelecs_and_pions(self, flag))
  /\ UNCHANGED self
  /\ Frame

Call_get_same_branch_polarization_data ==
  /\ outcome = "ok"
  /\ \E flag \in BOOLEAN :
       /\ call' = <<"get_same_branch_polarization_data", flag>>
       /\ ret' = get_same_branch_polarization_data(self, flag, rounding_of(flag))
       /\ self' = [self EXCEPT !.structures =
                     structures_after_adjust(@, adjusted_lattices(@, flag))]
  /\ Frame

Call_get_lattice_quanta ==
  /\ outcome = "ok"
  /\ \E flag \in BOOLEAN :
       /\ call' = <<"get_lattice_quanta", flag>>
       /\ ret' = get_lattice_quanta(self, flag)
       /\ self' = [self EXCEPT !.structures =
                     structures_after_adjust(@, adjusted_lattices(@, flag))]
  /\ Frame

\* the methods below call get_same_branch_polarization_data(True)
Call_get_polarization_change ==
  /\ outcome = "ok"
  /\ call' = <<"get_polarization_change", TRUE>>
  /\ ret' = get_polarization_change(self, rounding.converted)
  /\ self' = [self EXCEPT !.structures =
                structures_after_adjust(@, adjusted_lattices(@, TRUE))]
  /\ Frame

Call_same_branch_splines ==
  /\ outcome = "ok"
  /\ call' = <<"same_branch_splines", TRUE>>
  /\ ret' = same_branch_splines(self, fit_failure, rounding.converted)
  /\ self' = [self EXCEPT !.structures =
                structures_after_adjust(@, adjusted_lattices(@, TRUE))]
  /\ Frame

Call_max_spline_jumps ==
  /\ outcome = "ok"
  /\ call' = <<"max_spline_jumps", TRUE>>
  /\ ret' = max_spline_jumps(self, fit_failure, rounding.converted)
  /\ self' = [self EXCEPT !.structures =
                structures_after_adjust(@, adjusted_lattices(@, TRUE))]
  /\ Frame

Call_smoothness ==
  /\ outcome = "ok"
  /\ call' = <<"smoothness", TRUE>>
  /\ ret' = smoothness(self, fit_failure, rounding.converted)
  /\ self' = [self EXCEPT !.structures =
                structures_after_adjust(@, adjusted_lattices(@, TRUE))]
  /\ Frame

Next ==
  \/ Construct
  \/ Call_get_pelecs_and_pions
  \/ Call_get_same_branch_polarization_data
  \/ Call_get_lattice_quanta
  \/ Call_get_polarization_change
  \/ Call_same_branch_splines
  \/ Call_max_spline_jumps
  \/ Call_smoothness

\* the life of a Polarization object: construction, then any calls
Spec == Init /\ [][Next]_vars

\* the same, with an earlier call remembered
SpecCalls == InitCalls /\ [][Next]_vars

\* get_same_branch_polarization_data applied once to a new object, with the
\* flag of the kind of call whose rounding was drawn (that of the other kind
\* is empty)
Apply_get_same_branch_polarization_data ==
  /\ call = NoCall
  /\ Call_get_same_branch_polarization_data
  /\ rounding_of(~call'[2]) = {}

NextPath ==
  \/ Construct
  \/ Apply_get_same_branch_polarization_data

SpecPath == InitPath /\ [][NextPath]_vars

SpecShift == InitShift /\ [][NextPath]_vars

\* get_total_ionic_dipole(structure, zval_dict)
Call_get_total_ionic_dipole ==
  /\ ionic_ret = NotCalled
  /\ ionic_ret' = get_total_ionic_dipole(ionic_structure, zval_dict)
  /\ UNCHANGED <<p_elecs_arg, p_ions_arg, structures_arg, outcome, self, call,
                 ret, earlier, ionic_structure, zval_dict, rounding, fit_failure,
                 trendVars, cohpVars>>

\* a structure of 0..MaxSites sites and a zval_dict for some of the species
InitIonic ==
  /\ p_elecs_arg = <<>>
  /\ p_ions_arg = <<>>
  /\ structures_arg = <<>>
  /\ rounding = NoRounding
  /\ NoObjectYet
  /\ earlier = Untracked
  /\ \E n \in 0..MaxSites :
       \E l \in IonicLattices, species \in [1..n -> Species],
          fracs \in [1..n -> FracChoices] :
         ionic_structure =
           [lattice |-> l,
            sites |-> Rows([i \in 1..n |-> PeriodicSite(species[i], fracs[i])])]
  /\ \E known \in SUBSET Species : zval_dict = [s \in known |-> ZVAL[s]]
  /\ ionic_ret = NotCalled
  /\ NothingElse

NextIonic == Call_get_total_ionic_dipole

SpecIonic == InitIonic /\ [][NextIonic]_vars

\* a path of 1..MaxSplineLen steps in one cell, and any set of directions
\* whose series the spline-fitting primitive refuses
InitSpline ==
  /\ \E n \in 1..MaxSplineLen :
       /\ p_elecs_arg \in [1..n -> FewElecChoices]
       /\ p_ions_arg \in [1..n -> FewIonChoices]
       /\ structures_arg \in [1..n -> {Structure(2, 3, 4)}]
       /\ rounding \in ConvertedRoundingChoices(p_elecs_arg, p_ions_arg, structures_arg)
  /\ NoObjectYet
  /\ earlier = Untracked
  /\ NoIonic
  /\ fit_failure \in SUBSET Dirs
  /\ NoTrend
  /\ NoCohpcar

\* one of the spline methods applied once to a new object
Apply_same_branch_splines == call = NoCall /\ Call_same_branch_splines

Apply_max_spline_jumps == call = NoCall /\ Call_max_spline_jumps

Apply_smoothness == call = NoCall /\ Call_smoothness

NextSpline ==
  \/ Construct
  \/ Apply_same_branch_splines
  \/ Apply_max_spline_jumps
  \/ Apply_smoothness

SpecSpline == InitSpline /\ [][NextSpline]_vars

\* the series of the energies, in fit_failure
EnergySeries == 0

NoPolarization ==
  /\ p_elecs_arg = <<>>
  /\ p_ions_arg = <<>>
  /\ structures_arg = <<>>
  /\ rounding = NoRounding
  /\ NoObjectYet
  /\ earlier = Untracked

\* EnergyTrend(energies) of 0..MaxEnergies energies; whether the primitive
\* refuses them, and the end slopes of the spline if it fits them
InitTrend ==
  /\ NoPolarization
  /\ NoIonic
  /\ NoCohpcar
  /\ fit_failure \in SUBSET {EnergySeries}
  /\ fit_slopes \in SlopeChoices \X SlopeChoices
  /\ \E n \in 0..MaxEnergies :
       \E energies \in [1..n -> EnergyChoices] : trend = EnergyTrend_init(energies)
  /\ trend_call = NoTrendCall
  /\ trend_ret = [raises |-> "not called", value |-> <<>>, printed |-> ""]

TrendFrame ==
  UNCHANGED <<p_elecs_arg, p_ions_arg, structures_arg, outcome, self, call, ret,
              earlier, ionicVars, rounding, fit_failure, fit_slopes, trend,
              cohpVars>>

Call_EnergyTrend_spline ==
  /\ trend_call' = <<"spline", 0>>
  /\ trend_ret' = EnergyTrend_spline(trend, EnergySeries \in fit_failure)
  /\ TrendFrame

Call_EnergyTrend_smoothness ==
  /\ trend_call' = <<"smoothness", 0>>
  /\ trend_ret' = EnergyTrend_smoothness(trend, EnergySeries \in fit_failure)
  /\ TrendFrame

Call_max_spline_jump ==
  /\ trend_call' = <<"max_spline_jump", 0>>
  /\ trend_ret' = max_spline_jump(trend, EnergySeries \in fit_failure)
  /\ TrendFrame

Call_endpoints_minima ==
  /\ \E slope_cutoff \in CutoffChoices :
       /\ trend_call' = <<"endpoints_minima", slope_cutoff>>
       /\ trend_ret' = endpoints_minima(trend, slope_cutoff,
                                        EnergySeries \in fit_failure, fit_slopes)
  /\ TrendFrame

NextTrend ==
  \/ Call_EnergyTrend_spline
  \/ Call_EnergyTrend_smoothness
  \/ Call_max_spline_jump
  \/ Call_endpoints_minima

SpecTrend == InitTrend /\ [][NextTrend]_vars

\* a COHPCAR file of 0..MaxBonds bonds: one that has a total line for every
\* bond, followed by 0..MaxOrbLines orbital-resolved lines, or one of an older
\* LOBSTER version that has 1..MaxOrbLines orbital-resolved lines for every
\* bond and no total lines
InitCohpcar ==
  /\ NoPolarization
  /\ NoIonic
  /\ fit_failure = {}
  /\ NoTrend
  /\ \E total \in BOOLEAN, nbonds \in 0..MaxBonds :
       \E norbs \in [1..nbonds -> (IF total THEN 0 ELSE 1)..MaxOrbLines] :
         cohp_lines = FileLines(total, norbs, nbonds)
  /\ cohpcar = [read |-> FALSE]

\* Cohpcar(filename)
Read_Cohpcar ==
  /\ ~cohpcar.read
  /\ cohpcar' = Cohpcar_init(cohp_lines)
  /\ UNCHANGED <<p_elecs_arg, p_ions_arg, structures_arg, outcome, self, call, ret,
                 earlier, ionicVars, rounding, fit_failure, trendVars,
                 cohp_lines>>

NextCohpcar == Read_Cohpcar

SpecCohpcar == InitCohpcar /\ [][NextCohpcar]_vars

\* ------------------------------------------------------------------ claims
\* the object a correct construction from the arguments holds
Constructed ==
  [p_elecs |-> p_elecs_arg, p_ions |-> p_ions_arg, structures |-> structures_arg]

EqualLengths ==
  /\ Len(p_elecs_arg) = Len(p_ions_arg)
  /\ Len(p_elecs_arg) = Len(structures_arg)
  /\ Len(p_ions_arg) = Len(structures_arg)

\* C6: construction raises ValueError whenever two of the three sequences
\* differ in length, and succeeds, storing the three sequences whole (nothing
\* is truncated), whenever the three lengths are equal.
C6_LengthInvariant ==
  outcome # "pending" =>
    IF EqualLengths
    THEN outcome = "ok" /\ self = Constructed
    ELSE outcome = "ValueError" /\ self = NoObject

\* the dipole sequences agree in length, the structures do not: rejected
C6_Witness ==
  /\ outcome = "ValueError"
  /\ Len(p_elecs_arg) = Len(p_ions_arg)
  /\ Len(structures_arg) = 1
  /\ Len(p_elecs_arg) = 2

\* scale[i] = (e_to_muC * cm2_to_A2) / volume[i]
scale(i) == RDiv(RInt(UnitFactor), volume(self.structures[i].lattice))

\* C7: get_pelecs_and_pions(True) returns every stored component of step i
\* multiplied by structure i's own scale[i], so that dividing by scale[i]
\* gives the stored value back; get_pelecs_and_pions(False) returns the
\* stored matrices unchanged.
C7_UnitConversionRoundTrip ==
  (outcome = "ok" /\ call[1] = "get_pelecs_and_pions") =>
    /\ ret.raises = ""
    /\ IF call[2]
       THEN \A k \in 1..2 :
              /\ Len(ret.value[k]) = Len(self.structures)
              /\ \A i \in 1..Len(self.structures) : \A d \in Dirs :
                   LET stored == IF k = 1 THEN self.p_elecs[i][d] ELSE self.p_ions[i][d]
                   IN  /\ ret.value[k][i][d] = RMul(stored, scale(i))
                       /\ RDiv(ret.value[k][i][d], scale(i)) = stored
       ELSE ret.value = <<self.p_elecs, self.p_ions>>

\* a converted path of two structures of different volumes, with non-zero dipoles
C7_Witness ==
  /\ outcome = "ok"
  /\ call = <<"get_pelecs_and_pions", TRUE>>
  /\ Len(self.structures) = 2
  /\ volume(self.structures[1].lattice) # volume(self.structures[2].lattice)
  /\ self.p_elecs[2] # ZeroVec
  /\ self.p_ions[2] # ZeroVec
  /\ ret.value[1][2] # self.p_elecs[2]

\* C8: get_polarization_change returns same_branch[L-1] - same_branch[0] of
\* the same-branch values computed with unit conversion; for one step that is
\* the zero vector.
C8_PolarizationChange ==
  (outcome = "ok" /\ call[1] = "get_polarization_change" /\ Len(self.p_elecs) >= 1) =>
    Only({
      /\ same_branch.raises = ""
      /\ ret = Return(VSub(same_branch.value[Len(self.p_elecs)], same_branch.value[1]))
      /\ Len(self.p_elecs) = 1 => ret.value = ZeroVec
      : same_branch \in {get_same_branch_polarization_data(self, TRUE, rounding.converted)}})

\* a path of two steps whose polarization changes
C8_Witness ==
  /\ outcome = "ok"
  /\ call[1] = "get_polarization_change"
  /\ Len(self.p_elecs) = 2
  /\ ret.raises = ""
  /\ ret.value # ZeroVec

\* what a method returns on a newly constructed object
ResultOf(c, obj) ==
  CASE c[1] = "get_pelecs_and_pions" -> Return(get_pelecs_and_pions(obj, c[2]))
    [] c[1] = "get_same_branch_polarization_data" ->
         get_same_branch_polarization_data(obj, c[2], rounding_of(c[2]))
    [] c[1] = "get_lattice_quanta" -> get_lattice_quanta(obj, c[2])
    [] c[1] = "get_polarization_change" -> get_polarization_change(obj, rounding.converted)
    [] c[1] = "same_branch_splines" -> same_branch_splines(obj, fit_failure, rounding.converted)
    [] c[1] = "max_spline_jumps" -> max_spline_jumps(obj, fit_failure, rounding.converted)
    [] c[1] = "smoothness" -> smoothness(obj, fit_failure, rounding.converted)

\* C9: whatever methods were called, with whatever flags, the object still
\* holds the dipoles and structures (lattices included) it was constructed
\* with, the last call returned what it returns on a new object, and it
\* returned what the same call, with the same flag, returned when it was made
\* earlier in the life of the object.
C9_Purity ==
  outcome = "ok" =>
    /\ self = Constructed
    /\ call # NoCall => ret = ResultOf(call, Constructed)
    /\ (call # NoCall /\ earlier[1] = call) => earlier[2] = ret

\* an unconverted same-branch call repeated on an object whose unconverted
\* and converted calls both meet equidistant images that rounding orders
C9_Witness ==
  /\ outcome = "ok"
  /\ call = <<"get_same_branch_polarization_data", FALSE>>
  /\ earlier[1] = call
  /\ Len(self.structures) = 2
  /\ ret.raises = ""
  /\ rounding.unconverted # {}
  /\ rounding.converted # {}

\* ------------------------------------------- claims on the same-branch path
SameBranchCalled == outcome = "ok" /\ call[1] = "get_same_branch_polarization_data"

\* p_elec[i] + p_ion[i] as stored, and in the units of the call
RawTotal(i) == VAdd(self.p_elecs[i], self.p_ions[i])

Total(i, converted) ==
  IF converted THEN VScale(scale(i), RawTotal(i)) ELSE RawTotal(i)

\* structure i's quantum per direction, in the units of the call
Quantum(i, converted) ==
  IF converted
  THEN VScale(RAbs(scale(i)), abc(self.structures[i].lattice))
  ELSE abc(self.structures[i].lattice)

\* the angle gamma of structure i's cell
Gamma(i) == self.structures[i].lattice.gamma

\* the point of real space that the dipole v stands for in structure i: v[d]
\* along lattice vector d (a call with conversion turns every lattice vector
\* round, which changes no distance)
Position(i, v) ==
  <<RAdd(v[1], RMul(v[2], Gamma(i).cos)), RMul(v[2], Gamma(i).sin), v[3]>>

Shifts1 == -MaxImage..MaxImage

\* of the dipole v of structure i and its periodic images, v moved by n[d]
\* quanta q[d] in each direction d, n[d] in -MaxImage..MaxImage, none is
\* nearer (Euclidean distance in real space) to the point ref than v itself;
\* strictly: every other one is farther
NoneNearer(i, v, q, ref, strictly) ==
  LET sq(x) == RMul(x, x)
      along(d, n) == RAdd(v[d], RMul(RInt(n), q[d]))
      z2 == Rows([m \in 1..(2 * MaxImage + 1) |->
                    sq(RSub(along(3, m - MaxImage - 1), ref[3]))])
      xy2(n1, n2) ==
        Only({
          RAdd(sq(RSub(RAdd(along(1, n1), RMul(b, Gamma(i).cos)), ref[1])),
               sq(RSub(RMul(b, Gamma(i).sin), ref[2])))
          : b \in {along(2, n2)}})
  IN  Only({
        \A n1 \in Shifts1 : \A n2 \in Shifts1 :
          Only({
            \A n3 \in Shifts1 :
              IF strictly /\ <<n1, n2, n3>> # <<0, 0, 0>>
              THEN RLt(t[2], RAdd(in12, t[1][n3 + MaxImage + 1]))
              ELSE RLe(t[2], RAdd(in12, t[1][n3 + MaxImage + 1]))
            : in12 \in {xy2(n1, n2)}})
        : t \in {<<z2, RAdd(xy2(0, 0), z2[MaxImage + 1])>>}})

\* C2: the value returned for step i differs from the raw total of step i by
\* an integer multiple of structure i's quantum in each direction, and no
\* periodic image of it is nearer (Euclidean distance in real space) to the
\* reference point: the origin for the first step, the real-space position
\* of the value chosen for the step before otherwise.
C2_BranchSelection ==
  SameBranchCalled =>
    /\ ret.raises = ""
    /\ Len(ret.value) = Len(self.structures)
    /\ \A i \in 1..Len(self.structures) :
         Only({
           /\ \A d \in Dirs : RDiv(RSub(ret.value[i][d], t[1][d]), t[2][d])[2] = 1
           /\ NoneNearer(i, ret.value[i], t[2], t[3], FALSE)
           : t \in {<<Total(i, call[2]), Quantum(i, call[2]),
                IF i = 1 THEN ZeroVec ELSE Position(i - 1, ret.value[i - 1])>>}})

\* a second step that is moved by a quantum to stay near a first step that is
\* away from the origin
C2_Witness ==
  /\ SameBranchCalled
  /\ call[2] = FALSE
  /\ Len(self.structures) = 2
  /\ ret.raises = ""
  /\ ret.value[1] # ZeroVec
  /\ ret.value[2] # RawTotal(2)
  /\ RLt(Norm2(ret.value[2]), Norm2(RawTotal(2)))

WithinHalf(x, y, q) == RLe(RAbs(RSub(x, y)), RDiv(q, RInt(2)))

StrictlyWithinHalf(x, y, q) == RLt(RAbs(RSub(x, y)), RDiv(q, RInt(2)))

\* the unconverted call returned the raw totals, step by step
ReturnsRawTotals ==
  /\ ret.raises = ""
  /\ Len(ret.value) = Len(self.structures)
  /\ \A i \in 1..Len(self.structures) : ret.value[i] = RawTotal(i)

\* C4 as stated: when every step's raw total lies within half a quantum of
\* its predecessor's, the unconverted call returns the raw totals at every
\* step, the first included.
C4_AsStated ==
  (SameBranchCalled /\ call[2] = FALSE) =>
    ((\A i \in 2..Len(self.structures) : \A d \in Dirs :
        WithinHalf(RawTotal(i)[d], RawTotal(i - 1)[d], Quantum(i, FALSE)[d]))
     => ReturnsRawTotals)

\* the raw total of step i is strictly nearer in real space to its
\* reference point (the origin for the first step, the position of the raw
\* total of the step before otherwise) than every other periodic image of it
StrictlyNearest(i) ==
  NoneNearer(i, RawTotal(i), Quantum(i, FALSE),
             IF i = 1 THEN ZeroVec ELSE Position(i - 1, RawTotal(i - 1)), TRUE)

\* every cell of the path has gamma = 90 degrees, the first step's raw total
\* lies less than half a quantum from zero in every direction and every later
\* step's less than half a quantum (of its own structure) from its
\* predecessor's
StrictlyWithinHalfQuanta ==
  /\ \A i \in 1..Len(self.structures) : Gamma(i) = Right
  /\ \A d \in Dirs : StrictlyWithinHalf(RawTotal(1)[d], Zero, Quantum(1, FALSE)[d])
  /\ \A i \in 2..Len(self.structures) : \A d \in Dirs :
       StrictlyWithinHalf(RawTotal(i)[d], RawTotal(i - 1)[d], Quantum(i, FALSE)[d])

\* C4: the unconverted call returns exactly the raw totals at every step when
\* every step's raw total is strictly nearer in real space to its reference
\* point (the origin for the first step, the raw total of the step before
\* otherwise) than every other periodic image of it; in cells with right
\* angles that is so when the first step's raw total lies less than half a
\* quantum from zero in every direction and every later step's less than half
\* a quantum from its predecessor's.
C4_ZeroAmbiguityIdempotence ==
  (SameBranchCalled /\ call[2] = FALSE) =>
    /\ (\A i \in 1..Len(self.structures) : StrictlyNearest(i)) => ReturnsRawTotals
    /\ StrictlyWithinHalfQuanta => ReturnsRawTotals

\* two steps, in a cubic and then in the oblique cell, of the same raw total
\* away from zero: returned as they are
C4_Witness ==
  /\ SameBranchCalled
  /\ call[2] = FALSE
  /\ self.structures = <<Structure(4, 4, 4), ObliqueStructure(3, 3, 4)>>
  /\ RawTotal(1) = Vec(1, -1, 1)
  /\ RawTotal(2) = Vec(1, -1, 1)
  /\ \A i \in 1..2 : StrictlyNearest(i)
  /\ ReturnsRawTotals

\* the cubic scenario: a = b = c at both steps, raw totals zero and half a
\* quantum along c (a = 5 Angstrom and 2.5 e.Angstrom in the scenario, 4 and 2
\* here: the fractions, 0 and 1/2, and the exactness of the doubles are the
\* same), no unit conversion
HalfQuantumScenario ==
  /\ SameBranchCalled
  /\ call[2] = FALSE
  /\ self.structures = <<Structure(4, 4, 4), Structure(4, 4, 4)>>
  /\ RawTotal(1) = ZeroVec
  /\ RawTotal(2) = Vec(0, 0, 2)

\* C5 as stated: in the cubic scenario the call returns [[0, 0, 0],
\* [0, 0, 2.5]] and not [[0, 0, 0], [0, 0, -2.5]].
C5_AsStated ==
  HalfQuantumScenario =>
    /\ ret = Return(<<ZeroVec, Vec(0, 0, 2)>>)
    /\ ret # Return(<<ZeroVec, Vec(0, 0, -2)>>)

\* C5: in the cubic scenario the call returns [[0, 0, 0], [0, 0, -2.5]]: the
\* two images of the second step are equally far from the first, in doubles
\* as in exact arithmetic, and the image of lower index comes first in the
\* search order.
C5_HalfQuantumTie ==
  HalfQuantumScenario => ret = Return(<<ZeroVec, Vec(0, 0, -2)>>)

\* the cubic scenario, called: the second step has two equidistant images
C5_Witness ==
  /\ HalfQuantumScenario
  /\ ret.raises = ""
  /\ Len(equidistant(self.structures[2].lattice,
                     frac_coord(RawTotal(2), self.structures[2].lattice),
                     ZeroVec)) = 2

\* ------------------------------------------------- claims on shifted paths
\* the object with n quanta of structure k added, in direction d, to step k's
\* raw electronic (which = "p_elecs") or ionic (which = "p_ions") dipole
Shifted(obj, which, k, d, n) ==
  LET by == RMul(RInt(n), abc(obj.structures[k].lattice)[d])
      moved(p) == [p EXCEPT ![k] = [@ EXCEPT ![d] = RAdd(@, by)]]
  IN  IF which = "p_elecs"
      THEN [obj EXCEPT !.p_elecs = moved(@)]
      ELSE [obj EXCEPT !.p_ions = moved(@)]

Shifts == (-MaxShift..MaxShift) \ {0}

\* the call on obj meets a step that has two or more images equidistant from
\* its reference point
Equidistant(obj, converted) ==
  LET p_raw == Rows([i \in 1..Len(obj.p_elecs) |-> VAdd(obj.p_elecs[i], obj.p_ions[i])])
  IN  \E b \in met_branches(
                 IF converted THEN scale_rows(units(obj.structures), p_raw) ELSE p_raw,
                 adjusted_lattices(obj.structures, converted), Len(obj.structures),
                 converted) :
        b.equidistant

\* the roundings the call on obj can meet
RoundingsOf(obj, converted) ==
  call_roundings(obj.p_elecs, obj.p_ions, obj.structures, converted)

\* what the call returns on the object shifted by n quanta agrees with ret at
\* step k and after, whatever rounding the shifted call meets
ShiftedAgrees(which, k, d, n) ==
  Only({
    \A r \in RoundingsOf(obj, call[2]) :
      Only({
        /\ shifted.raises = ret.raises
        /\ Len(shifted.value) = Len(ret.value)
        /\ \A j \in k..Len(self.structures) : shifted.value[j] = ret.value[j]
        : shifted \in {get_same_branch_polarization_data(obj, call[2], r)}})
    : obj \in {Shifted(self, which, k, d, n)}})

\* C1 as stated: adding any non-zero integer multiple of structure k's
\* quantum in one direction to step k's raw electronic or ionic dipole leaves
\* what the call returns (with or without unit conversion) unchanged at step k
\* and at every later step.
C1_AsStated ==
  SameBranchCalled =>
    \A k \in 1..Len(self.structures) : \A d \in Dirs : \A n \in Shifts :
      \A which \in {"p_elecs", "p_ions"} : ShiftedAgrees(which, k, d, n)

\* the call meets no equidistant images that rounding orders: with unit
\* conversion it meets no equidistant images, without it none but those
\* whose doubles are exactly computed
NoRoundedChoice(obj, converted) ==
  IF converted THEN ~Equidistant(obj, TRUE)
  ELSE RoundingsOf(obj, FALSE) = {{}}

\* C1: adding any non-zero integer multiple of structure k's quantum in one
\* direction to step k's raw electronic or ionic dipole leaves what the call
\* returns unchanged at step k and at every later step, on a path no step of
\* which has two periodic images equidistant from its reference point and,
\* without unit conversion, also on a path that has such steps only where the
\* doubles of the distances are exactly computed (the image of lower index is
\* returned there, shifted or not).
C1_QuantumShiftInvariance ==
  (SameBranchCalled /\ NoRoundedChoice(self, call[2])) =>
    \A k \in 1..Len(self.structures) : \A d \in Dirs : \A n \in Shifts :
      \A which \in {"p_elecs", "p_ions"} : ShiftedAgrees(which, k, d, n)

\* a converted call on two steps of different volumes whose second value is
\* not the converted raw total: shifting either step moves the raw totals,
\* not the values returned
C1_Witness ==
  /\ SameBranchCalled
  /\ call[2] = TRUE
  /\ Len(self.structures) = 2
  /\ volume(self.structures[1].lattice) # volume(self.structures[2].lattice)
  /\ ret.raises = ""
  /\ ret.value[2] # Total(2, TRUE)
  /\ ret.value[2] # ZeroVec
  /\ NoRoundedChoice(self, TRUE)

\* ------------------------------------------------ claims on the ionic dipole
\* the sum of calc_ionic over the sites n, n+1, ... of the structure
RECURSIVE SumOfCalcIonic(_)
SumOfCalcIonic(n) ==
  LET site == ionic_structure.sites[n]
      dipole == calc_ionic(site, ionic_structure, zval_dict[site.specie])
  IN  IF n = Len(ionic_structure.sites) THEN dipole
      ELSE VAdd(dipole, SumOfCalcIonic(n + 1))

\* C10: get_total_ionic_dipole raises KeyError whenever the species of any
\* site, wherever it sits in the site order, is absent from zval_dict (no
\* default charge, no partial sum); when every species is present it returns
\* the sum of calc_ionic over every site.
C10_TotalIonicDipole ==
  ionic_ret # NotCalled =>
    IF \E i \in 1..Len(ionic_structure.sites) :
         ionic_structure.sites[i].specie \notin DOMAIN zval_dict
    THEN ionic_ret = Raise("KeyError")
    ELSE /\ ionic_ret.raises = ""
         /\ Len(ionic_structure.sites) > 0 => ionic_ret.value = SumOfCalcIonic(1)

\* the first site's species has a ZVAL, the last site's has none: KeyError
C10_Witness ==
  /\ ionic_ret = Raise("KeyError")
  /\ Len(ionic_structure.sites) = 2
  /\ ionic_structure.sites[1].specie \in DOMAIN zval_dict
  /\ ionic_structure.sites[2].specie \notin DOMAIN zval_dict

\* ---------------------------------------------------- claims on the splines
\* the converted same-branch values the spline methods fit
SameBranch == get_same_branch_polarization_data(self, TRUE, rounding.converted).value

\* the fit of direction d is unavailable: the primitive refuses the series or
\* has too few points for a cubic spline
FitUnavailable(d) == d \in fit_failure \/ Len(self.structures) <= 3

\* the spline fitted to direction d
Fitted(d) == [available |-> TRUE, k |-> 3, y |-> column(SameBranch, d)]

\* C11 as stated: when the fit of any one direction is unavailable,
\* smoothness() reports an unavailable result (returns None) for the whole
\* call.
C11_AsStated ==
  (outcome = "ok" /\ call[1] = "smoothness") =>
    ((\E d \in Dirs : FitUnavailable(d)) => ret = Return(None))

\* C12: same_branch_splines never fails because of a fit: it returns, for
\* every set of failing fits, None for exactly the failing directions and
\* the fitted spline for every other direction.
C12_SplineIsolation ==
  (outcome = "ok" /\ call[1] = "same_branch_splines") =>
    /\ ret.raises = ""
    /\ \A d \in Dirs :
         IF FitUnavailable(d) THEN ret.value[d] = None
         ELSE ret.value[d] = Fitted(d)

\* the fit of b fails alone: a and c are fitted
C12_Witness ==
  /\ outcome = "ok"
  /\ call[1] = "same_branch_splines"
  /\ fit_failure = {2}
  /\ ret.raises = ""
  /\ ret.value[1] # None
  /\ ret.value[2] = None
  /\ ret.value[3] # None

\* C14: max_spline_jumps does not fail; for each direction with a spline it
\* returns the maximum over the steps of (same-branch value - spline value),
\* for each direction without one None, for that direction only.
C14_PartialJumps ==
  (outcome = "ok" /\ call[1] = "max_spline_jumps") =>
    /\ ret.raises = ""
    /\ \A d \in Dirs :
         IF FitUnavailable(d)
         THEN ret.value[d].available = FALSE
         ELSE ret.value[d] = [available |-> TRUE, max_of |-> column(SameBranch, d),
                              minus |-> Fitted(d)]

\* the fit of a fails alone: no jump for a, jumps for b and c
C14_Witness ==
  /\ outcome = "ok"
  /\ call[1] = "max_spline_jumps"
  /\ fit_failure = {1}
  /\ ret.raises = ""
  /\ ret.value[1].available = FALSE
  /\ ret.value[2].available
  /\ ret.value[3].available

\* ------------------------------------------------- claims on the EnergyTrend
\* the quartic fit of the energies fails: too few points, or refused
EnergyFitFails == Len(trend.energies) <= 4 \/ EnergySeries \in fit_failure

\* C13: when the fit of the energies fails, smoothness() does not raise: it
\* returns None and prints a message; spline() and max_spline_jump() raise
\* the primitive's error for the same energies.
C13_EnergySmoothnessSoft ==
  EnergyFitFails =>
    /\ trend_call[1] = "smoothness" =>
         /\ trend_ret.raises = ""
         /\ trend_ret.value = None
         /\ trend_ret.printed # ""
         /\ EnergyTrend_spline(trend, EnergySeries \in fit_failure).raises = "error"
         /\ max_spline_jump(trend, EnergySeries \in fit_failure).raises = "error"
    /\ trend_call[1] \in {"spline", "max_spline_jump"} => trend_ret.raises = "error"

\* smoothness() of four energies: None, and a message
C13_Witness ==
  /\ trend_call[1] = "smoothness"
  /\ Len(trend.energies) = 4
  /\ trend_ret.raises = ""
  /\ trend_ret.value = None
  /\ trend_ret.printed = "Energy spline failed."

\* C16: when the energies are fitted, endpoints_minima(slope_cutoff) returns
\* {polar, nonpolar} with polar = (|slope at the last index| <= slope_cutoff)
\* and nonpolar = (|slope at the first index| <= slope_cutoff); when they are
\* not, it returns None.
C16_EndpointsMinima ==
  trend_call[1] = "endpoints_minima" =>
    /\ trend_ret.raises = ""
    /\ IF EnergyFitFails THEN trend_ret.value = None
       ELSE /\ trend_ret.value.polar = (Abs(fit_slopes[2]) <= trend_call[2])
            /\ trend_ret.value.nonpolar = (Abs(fit_slopes[1]) <= trend_call[2])

\* the slope at the last index is -cutoff exactly (polar), the slope at the
\* first index is beyond the cutoff (not nonpolar)
C16_Witness ==
  /\ trend_call = <<"endpoints_minima", 5>>
  /\ ~EnergyFitFails
  /\ fit_slopes = <<6, -5>>
  /\ trend_ret.value.polar
  /\ ~trend_ret.value.nonpolar

\* ------------------------------------------------ claims on lattice quanta
LatticeQuantaCalled == outcome = "ok" /\ call[1] = "get_lattice_quanta"

\* the lattice length of structure i along d
Length(i, d) == abc(self.structures[i].lattice)[d]

\* C15 as stated: with conversion on, get_lattice_quanta returns for
\* structure i and direction d the lattice length times scale[i].
C15_AsStated ==
  (LatticeQuantaCalled /\ call[2]) =>
    /\ ret.raises = ""
    /\ \A i \in 1..Len(self.structures) : \A d \in Dirs :
         ret.value[i][d] = RMul(scale(i), Length(i, d))

\* C15: get_lattice_quanta returns for structure i and direction d the
\* lattice length with conversion off, and the lattice length times the
\* magnitude of structure i's own scale[i] (scale[i] is negative, a length is
\* not) with conversion on; the lengths of the lattices that
\* get_same_branch_polarization_data divides by with conversion on are the
\* same.
C15_LatticeQuanta ==
  LatticeQuantaCalled =>
    /\ ret.raises = ""
    /\ Len(ret.value) = Len(self.structures)
    /\ \A i \in 1..Len(self.structures) : \A d \in Dirs :
         /\ ret.value[i][d] =
              IF call[2] THEN RMul(RAbs(scale(i)), Length(i, d)) ELSE Length(i, d)
         /\ call[2] =>
              ret.value[i][d] = abc(adjusted_lattices(self.structures, TRUE)[i])[d]

\* conversion on, two structures of different volumes: the second row is the
\* second structure's lengths times the magnitude of its own factor, which is
\* not the first structure's
C15_Witness ==
  /\ LatticeQuantaCalled
  /\ call[2] = TRUE
  /\ Len(self.structures) = 2
  /\ volume(self.structures[1].lattice) # volume(self.structures[2].lattice)
  /\ ret.raises = ""
  /\ ret.value[2][1] = RMul(RAbs(scale(2)), Length(2, 1))
  /\ ret.value[2][1] # RMul(RAbs(scale(1)), Length(2, 1))

\* ------------------------------------------------------ claims on Cohpcar
\* the bonds of the file: the bond numbers of its header lines
BondsOfFile == {cohp_lines[n].no : n \in 1..Len(cohp_lines)}

\* C17 as stated: every bond of the file is stored in cohp_data under the
\* label that is its 1-based position among the bonds, the labels are
\* distinct (cohp_data holds them and "average", nothing else), and every
\* orbital-resolved line is stored in orb_res_cohp under the label of its
\* bond, whether or not the file has total lines.
C17_AsStated ==
  cohpcar.read =>
    /\ DOMAIN cohpcar.cohp_data = {"average"} \cup {ToString(b) : b \in BondsOfFile}
    /\ \A n \in 1..Len(cohp_lines) :
         LET line == cohp_lines[n]
             label == ToString(line.no)
             bond_data == get_bond_data(line)
         IN  /\ label \in DOMAIN cohpcar.cohp_data
             /\ cohpcar.cohp_data[label].sites = bond_data.sites
             /\ cohpcar.cohp_data[label].length = bond_data.length
             /\ line.orbitals # <<>> =>
                  /\ cohpcar.orb_res_cohp # None
                  /\ label \in DOMAIN cohpcar.orb_res_cohp
                  /\ bond_data.orb_label \in DOMAIN cohpcar.orb_res_cohp[label]
                  /\ cohpcar.orb_res_cohp[label][bond_data.orb_label] =
                       OrbEntry(n - 1, bond_data)

=============================================================================
